---- MODULE Spec2Model ----
(***************************************************************************)
(* Model of src/main.py: the reference tables COST_DISTRIBUTION,           *)
(* UNIT_POOL_PER_CHAMPION, CHAMPION_COUNT_PER_COST, UNIT_POOL_SIZE and the *)
(* function calculate_distribution.                                        *)
(*                                                                         *)
(* Numbers.  Python ints are unbounded, so they are modelled by naturals   *)
(* of arbitrary size (sequences of limbs, least significant first).  A     *)
(* Python float is modelled by the exact rational it stands for, together  *)
(* with the finite range of a double: an int -> float conversion and a     *)
(* float power whose magnitude reaches 2^1024 - 2^970 raise OverflowError, *)
(* as CPython does.  Rounding inside the range is not modelled.            *)
(***************************************************************************)
EXTENDS Integers, Sequences, FiniteSets

(***************************************************************************)
(* Unbounded naturals.                                                     *)
(***************************************************************************)
Base == 10 * 1000

RECURSIVE BigFromNat(_)
BigFromNat(n) ==
    IF n = 0 THEN << >> ELSE << n % Base >> \o BigFromNat(n \div Base)

BigZero == << >>
BigOne == << 1 >>

\* drop the high zero limbs
BigStrip(a) ==
    LET nz == { i \in 1..Len(a) : a[i] # 0 }
    IN  IF nz = {} THEN << >>
        ELSE SubSeq(a, 1, CHOOSE i \in nz : \A j \in nz : j <= i)

\* Carry propagation over the limbs v[lo..hi], carry cin coming in: the limbs
\* and the carry going out.  The range is halved, so the depth is logarithmic.
RECURSIVE BigCarry(_, _, _, _)
BigCarry(v, lo, hi, cin) ==
    IF lo > hi THEN [s |-> << >>, c |-> cin]
    ELSE IF lo = hi
    THEN LET t == v[lo] + cin IN [s |-> << t % Base >>, c |-> t \div Base]
    ELSE LET mid == (lo + hi) \div 2
             low == BigCarry(v, lo, mid, cin)
             high == BigCarry(v, mid + 1, hi, low.c)
         IN  [s |-> low.s \o high.s, c |-> high.c]

BigNormalise(v) ==
    LET r == BigCarry(v, 1, Len(v), 0) IN BigStrip(r.s \o BigFromNat(r.c))

BigLimb(a, i) == IF i <= Len(a) THEN a[i] ELSE 0

BigAdd(a, b) ==
    LET n == IF Len(a) >= Len(b) THEN Len(a) ELSE Len(b)
    IN  BigNormalise([i \in 1..n |-> BigLimb(a, i) + BigLimb(b, i)])

\* a - b for a >= b
BigSub(a, b) ==
    BigStrip(BigCarry([i \in 1..Len(a) |-> a[i] - BigLimb(b, i)], 1, Len(a), 0).s)

\* -1, 0, 1 as a < b, a = b, a > b
BigCmp(a, b) ==
    IF Len(a) < Len(b) THEN -1
    ELSE IF Len(a) > Len(b) THEN 1
    ELSE LET diff == { i \in 1..Len(a) : a[i] # b[i] }
         IN  IF diff = {} THEN 0
             ELSE LET top == CHOOSE i \in diff : \A j \in diff : j <= i
                  IN  IF a[top] < b[top] THEN -1 ELSE 1

\* a * s for an ordinary natural s <= 100000
BigMulSmall(a, s) ==
    IF s = 0 THEN BigZero ELSE BigNormalise([i \in 1..Len(a) |-> a[i] * s])

BigShift(a, m) == IF a = << >> THEN a ELSE [i \in 1..m |-> 0] \o a

\* a times the number whose limbs are b[lo..hi]
RECURSIVE BigMulRange(_, _, _, _)
BigMulRange(a, b, lo, hi) ==
    IF lo = hi THEN BigMulSmall(a, b[lo])
    ELSE LET mid == (lo + hi) \div 2
         IN  BigAdd(BigMulRange(a, b, lo, mid),
                    BigShift(BigMulRange(a, b, mid + 1, hi), mid - lo + 1))

BigMul(a, b) ==
    IF a = BigZero \/ b = BigZero THEN BigZero
    ELSE IF Len(a) >= Len(b) THEN BigMulRange(a, b, 1, Len(b))
    ELSE BigMulRange(b, a, 1, Len(a))

\* Long division of the limbs a[lo..hi] by an ordinary natural 0 < s <= 100000,
\* from the high limb down, remainder rin coming in.
RECURSIVE BigDivRange(_, _, _, _, _)
BigDivRange(a, s, lo, hi, rin) ==
    IF lo > hi THEN [s |-> << >>, r |-> rin]
    ELSE IF lo = hi
    THEN LET t == rin * Base + a[lo] IN [s |-> << t \div s >>, r |-> t % s]
    ELSE LET mid == (lo + hi) \div 2
             high == BigDivRange(a, s, mid + 1, hi, rin)
             \* the high half first: its remainder goes into the low half
             parts == << high, BigDivRange(a, s, lo, mid, high.r) >>
         IN  [s |-> parts[2].s \o parts[1].s, r |-> parts[2].r]

BigDivSmall(a, s) == BigStrip(BigDivRange(a, s, 1, Len(a), 0).s)

\* a^e by repeated squaring
RECURSIVE BigPow(_, _)
BigPow(a, e) ==
    IF e = 0 THEN BigOne
    ELSE LET h == BigPow(a, e \div 2)
             sq == BigMul(h, h)
         IN  IF e % 2 = 0 THEN sq ELSE BigMul(sq, a)

(***************************************************************************)
(* Floats, as signed rationals num/den with den > 0.                       *)
(***************************************************************************)
RECURSIVE GCD(_, _)
GCD(a, b) == IF b = 0 THEN a ELSE GCD(b, a % b)

RatZero == [neg |-> FALSE, num |-> BigZero, den |-> BigOne]
RatOne == [neg |-> FALSE, num |-> BigOne, den |-> BigOne]

\* the int n as a float
RatFromBig(n) == [neg |-> FALSE, num |-> n, den |-> BigOne]

\* the quotient a / b of two ordinary naturals, b > 0
RatFromInts(a, b) ==
    LET g == GCD(a, b)
    IN  [neg |-> FALSE, num |-> BigFromNat(a \div g), den |-> BigFromNat(b \div g)]

RatMul(x, y) ==
    LET num == BigMul(x.num, y.num)
    IN  [neg |-> num # BigZero /\ x.neg # y.neg,
         num |-> num,
         den |-> BigMul(x.den, y.den)]

RatNeg(x) == [x EXCEPT !.neg = x.num # BigZero /\ ~x.neg]

\* the sum of two fractions that have the same denominator already
RatAddSameDen(x, y) ==
    IF x.neg = y.neg
    THEN [neg |-> x.neg, num |-> BigAdd(x.num, y.num), den |-> x.den]
    ELSE LET c == BigCmp(x.num, y.num)
         IN  IF c = 0 THEN [neg |-> FALSE, num |-> BigZero, den |-> x.den]
             ELSE IF c > 0
             THEN [neg |-> x.neg, num |-> BigSub(x.num, y.num), den |-> x.den]
             ELSE [neg |-> y.neg, num |-> BigSub(y.num, x.num), den |-> x.den]

RatAdd(x, y) ==
    IF x.den = y.den THEN RatAddSameDen(x, y)
    ELSE RatAddSameDen(
             [neg |-> x.neg, num |-> BigMul(x.num, y.den), den |-> BigMul(x.den, y.den)],
             [neg |-> y.neg, num |-> BigMul(y.num, x.den), den |-> BigMul(x.den, y.den)])

RatSub(x, y) == RatAdd(x, RatNeg(y))

\* RatPow with 0.0 ** e taken to be 0.0 for every e, e = 0 too
RatPowZeroBase(x, e) ==
    IF x.num = BigZero THEN RatZero
    ELSE [neg |-> x.neg /\ e % 2 = 1, num |-> BigPow(x.num, e), den |-> BigPow(x.den, e)]

\* x ** e for an int e >= 0; as in Python, 0.0 ** 0 is 1.0
RatPow(x, e) ==
    [neg |-> x.neg /\ e % 2 = 1, num |-> BigPow(x.num, e), den |-> BigPow(x.den, e)]

(***************************************************************************)
(* The range of a double.  A magnitude of 2^1024 - 2^970 or more rounds to *)
(* 2^1024, which no double holds: CPython raises OverflowError.            *)
(***************************************************************************)
FloatOverflowBound == BigSub(BigPow(<< 2 >>, 1024), BigPow(<< 2 >>, 970))

\* int -> float, as done by int * float
IntToFloatOverflows(n) == BigCmp(n, FloatOverflowBound) >= 0

\* float ** int
RatPowOverflows(x, e) ==
    /\ BigCmp(x.num, x.den) > 0
    /\ BigCmp(BigPow(x.num, e), BigMul(FloatOverflowBound, BigPow(x.den, e))) >= 0

(***************************************************************************)
(* math.comb: CombRow(n)[k + 1] is comb(n, k).  The row is built from      *)
(* comb(n, 0) = 1 by comb(n, k + 1) = comb(n, k) * (n - k) / (k + 1).      *)
(***************************************************************************)
RECURSIVE CombRowRange(_, _, _, _)
CombRowRange(n, lo, hi, c) ==
    IF lo = hi THEN << c >>
    ELSE LET mid == (lo + hi) \div 2
             left == CombRowRange(n, lo, mid, c)
             last == left[Len(left)]
             next == BigDivSmall(BigMulSmall(last, n - mid), mid + 1)
         IN  left \o CombRowRange(n, mid + 1, hi, next)

CombRow(n) == CombRowRange(n, 0, n, BigOne)

(***************************************************************************)
(* The module's state: the four reference tables, and one call of          *)
(* calculate_distribution at a time.                                       *)
(***************************************************************************)
VARIABLES
    COST_DISTRIBUTION,        \* level -> cost -> appearance rate in percent
    UNIT_POOL_PER_CHAMPION,   \* cost -> copies of each champion
    CHAMPION_COUNT_PER_COST,  \* cost -> number of champions
    UNIT_POOL_SIZE,           \* cost -> cards of that cost
    pc,                       \* "called": a call is running; "done": it has ended
    args,                     \* the arguments of the call
    outcome,                  \* "none", "return", or the exception raised
    result,                   \* the list returned
    earlier                   \* an earlier call that has ended, or NoCall

tables == << COST_DISTRIBUTION, UNIT_POOL_PER_CHAMPION, CHAMPION_COUNT_PER_COST,
             UNIT_POOL_SIZE >>
vars == << COST_DISTRIBUTION, UNIT_POOL_PER_CHAMPION, CHAMPION_COUNT_PER_COST,
           UNIT_POOL_SIZE, pc, args, outcome, result, earlier >>

\* InitialCostDistribution with 20 typed for the 19 of level 7
InitialCostDistributionMistyped ==
    << << 100,   0,   0,   0,   0 >>,
       << 100,   0,   0,   0,   0 >>,
       <<  75,  25,   0,   0,   0 >>,
       <<  55,  30,  15,   0,   0 >>,
       <<  45,  33,  20,   2,   0 >>,
       <<  35,  35,  25,   5,   0 >>,
       <<  20,  30,  35,  15,   1 >>,
       <<  15,  25,  35,  20,   5 >>,
       <<  10,  15,  30,  35,  10 >>,
       <<   5,  10,  20,  40,  25 >> >>

\* The tables as the module's top level builds them.  A dict whose keys are
\* 1..n is the sequence of its values.
InitialCostDistribution ==
    << << 100,   0,   0,   0,   0 >>,
       << 100,   0,   0,   0,   0 >>,
       <<  75,  25,   0,   0,   0 >>,
       <<  55,  30,  15,   0,   0 >>,
       <<  45,  33,  20,   2,   0 >>,
       <<  35,  35,  25,   5,   0 >>,
       <<  19,  30,  35,  15,   1 >>,
       <<  15,  25,  35,  20,   5 >>,
       <<  10,  15,  30,  35,  10 >>,
       <<   5,  10,  20,  40,  25 >> >>

InitialUnitPoolPerChampion == << 30, 25, 18, 10, 9 >>

InitialChampionCountPerCost == << 14, 13, 13, 12, 8 >>

InitialUnitPoolSize ==
    [cost \in {1, 2, 3, 4, 5} |->
        InitialUnitPoolPerChampion[cost] * InitialChampionCountPerCost[cost]]

\* dict.get(key, default)
DictGet(d, key, default) == IF key \in DOMAIN d THEN d[key] ELSE default

(***************************************************************************)
(* calculate_distribution(level, cost, rerolls, purchased_target,          *)
(* purchased_same_cost); a is the record of the five arguments.            *)
(***************************************************************************)
cost_prob_percent(a) == DictGet(DictGet(COST_DISTRIBUTION, a.level, << >>), a.cost, 0)

\* cost_prob without the division by 100.0
cost_prob_as_percent(a) == RatFromInts(cost_prob_percent(a), 1)

cost_prob(a) == RatFromInts(cost_prob_percent(a), 100)

Max(m, n) == IF m >= n THEN m ELSE n

\* pool_size_total with the purchased target copies taken off the tier pool too
pool_size_total_less_target(a) ==
    Max(DictGet(UNIT_POOL_SIZE, a.cost, 0) - a.purchased_same_cost - a.purchased_target, 0)

pool_size_total(a) == Max(DictGet(UNIT_POOL_SIZE, a.cost, 0) - a.purchased_same_cost, 0)

pool_size_target(a) ==
    Max(DictGet(UNIT_POOL_PER_CHAMPION, a.cost, 0) - a.purchased_target, 0)

\* PoolExhausted with "and" for "or"
PoolExhaustedBoth(a) == pool_size_total(a) < 1 /\ pool_size_target(a) < 1

\* the test that guards the early return
PoolExhausted(a) == pool_size_total(a) < 1 \/ pool_size_target(a) < 1

\* ExhaustedDistribution with one zero for each reroll
ExhaustedDistributionOnePerReroll(a) == << RatOne >> \o [i \in 1..a.rerolls |-> RatZero]

\* [1.0] + [0.0] * (rerolls * 5)
ExhaustedDistribution(a) == << RatOne >> \o [i \in 1..(a.rerolls * 5) |-> RatZero]

p_single(a) ==
    RatMul(cost_prob(a), RatFromInts(pool_size_target(a), pool_size_total(a)))

total_slots(a) == a.rerolls * 5

\* p_k without the binomial coefficient
p_k_without_comb(c, p, n, k) ==
    RatMul(RatPow(p, k), RatPow(RatSub(RatOne, p), n - k))

\* comb(total_slots, k) * (p_single**k) * ((1 - p_single)**(total_slots - k)),
\* c being comb(total_slots, k)
p_k(c, p, n, k) ==
    RatMul(RatMul(RatFromBig(c), RatPow(p, k)), RatPow(RatSub(RatOne, p), n - k))

\* whether computing p_k raises OverflowError
p_k_overflows(c, p, n, k) ==
    \/ RatPowOverflows(p, k)
    \/ IntToFloatOverflows(c)
    \/ RatPowOverflows(RatSub(RatOne, p), n - k)

\* the loop over k in range(total_slots + 1)
BinomialDistribution(a) ==
    LET p == p_single(a)
        n == total_slots(a)
        combs == CombRow(n)
    IN  IF \E k \in 0..n : p_k_overflows(combs[k + 1], p, n, k)
        THEN [outcome |-> "OverflowError", result |-> << >>]
        ELSE [outcome |-> "return",
              result |-> [i \in 1..(n + 1) |-> p_k(combs[i], p, n, i - 1)]]

\* how a call with arguments a ends
Run(a) ==
    IF PoolExhausted(a)
    THEN [outcome |-> "return", result |-> ExhaustedDistribution(a)]
    ELSE IF pool_size_total(a) = 0
    THEN [outcome |-> "ZeroDivisionError", result |-> << >>]
    ELSE BinomialDistribution(a)

\* TablesAfterCall for a function that takes the purchased cards out of
\* UNIT_POOL_SIZE itself
TablesAfterCallDepleting(a) ==
    [COST_DISTRIBUTION |-> COST_DISTRIBUTION,
     UNIT_POOL_PER_CHAMPION |-> UNIT_POOL_PER_CHAMPION,
     CHAMPION_COUNT_PER_COST |-> CHAMPION_COUNT_PER_COST,
     UNIT_POOL_SIZE |->
         IF a.cost \in DOMAIN UNIT_POOL_SIZE
         THEN [UNIT_POOL_SIZE EXCEPT ![a.cost] = pool_size_total(a)]
         ELSE UNIT_POOL_SIZE]

\* the tables after the call: the function assigns to none of them
TablesAfterCall(a) ==
    [COST_DISTRIBUTION |-> COST_DISTRIBUTION,
     UNIT_POOL_PER_CHAMPION |-> UNIT_POOL_PER_CHAMPION,
     CHAMPION_COUNT_PER_COST |-> CHAMPION_COUNT_PER_COST,
     UNIT_POOL_SIZE |-> UNIT_POOL_SIZE]

calculate_distribution ==
    /\ pc = "called"
    /\ LET r == Run(args)
           t == TablesAfterCall(args)
       IN  /\ outcome' = r.outcome
           /\ result' = r.result
           /\ COST_DISTRIBUTION' = t.COST_DISTRIBUTION
           /\ UNIT_POOL_PER_CHAMPION' = t.UNIT_POOL_PER_CHAMPION
           /\ CHAMPION_COUNT_PER_COST' = t.CHAMPION_COUNT_PER_COST
           /\ UNIT_POOL_SIZE' = t.UNIT_POOL_SIZE
    /\ pc' = "done"
    /\ UNCHANGED << args, earlier >>

(***************************************************************************)
(* The calls made.                                                         *)
(***************************************************************************)
MaxLevel == 11
MaxCost == 6
MaxRerolls == 1

Arguments(level, cost, rerolls, purchased_target, purchased_same_cost) ==
    [level |-> level, cost |-> cost, rerolls |-> rerolls,
     purchased_target |-> purchased_target,
     purchased_same_cost |-> purchased_same_cost]

GridInputs ==
    [level : 0..MaxLevel, cost : 0..MaxCost, rerolls : 0..MaxRerolls,
     purchased_target : {0, 3, 9, 31},
     purchased_same_cost : {0, 71, 72, 390, 400, 419, 500}]

\* the scenarios of longer rerolling
ScenarioInputs ==
    { Arguments(1, 1, 5, 0, 0),
      Arguments(9, 5, 20, 0, 0),
      Arguments(1, 1, 50, 0, 419),
      Arguments(1, 1, 206, 30, 0),
      Arguments(11, 1, 206, 0, 0),
      Arguments(3, 5, 206, 0, 0) }

Inputs == GridInputs \cup ScenarioInputs

\* no earlier call is remembered
NoCall == [args |-> << >>, outcome |-> "none", result |-> << >>, other |-> FALSE]

TablesInit ==
    /\ COST_DISTRIBUTION = InitialCostDistribution
    /\ UNIT_POOL_PER_CHAMPION = InitialUnitPoolPerChampion
    /\ CHAMPION_COUNT_PER_COST = InitialChampionCountPerCost
    /\ UNIT_POOL_SIZE = InitialUnitPoolSize

\* a caller calls the function
Init ==
    /\ TablesInit
    /\ pc = "called"
    /\ args \in Inputs
    /\ outcome = "none"
    /\ result = << >>
    /\ earlier = NoCall

Next == calculate_distribution

Spec == Init /\ [][Next]_vars

(***************************************************************************)
(* Call after call, as each press of the button makes one.  earlier is a   *)
(* history variable: one call that has ended, its arguments and how it     *)
(* ended, and whether a call with other arguments was made since.          *)
(***************************************************************************)
RepeatInputs ==
    { Arguments(1, 1, 1, 0, 0),
      Arguments(1, 1, 1, 0, 400),
      Arguments(1, 1, 2, 3, 71),
      Arguments(7, 5, 1, 3, 0),
      Arguments(9, 5, 2, 0, 71),
      Arguments(9, 5, 1, 9, 0),
      Arguments(3, 5, 1, 0, 0),
      Arguments(11, 2, 0, 0, 0) }

InitRepeat ==
    /\ TablesInit
    /\ pc = "called"
    /\ args \in RepeatInputs
    /\ outcome = "none"
    /\ result = << >>
    /\ earlier = NoCall

\* the next call begins
Begin(a) ==
    /\ pc = "done"
    /\ pc' = "called"
    /\ args' = a
    /\ outcome' = "none"
    /\ result' = << >>
    /\ UNCHANGED tables

CallAgain ==
    \E a \in RepeatInputs :
        /\ Begin(a)
        /\ earlier' = IF earlier = NoCall THEN earlier
                      ELSE [earlier EXCEPT !.other = @ \/ a # earlier.args]

\* the same, the call that has just ended being the one remembered from now on
CallAgainRemembering ==
    \E a \in RepeatInputs :
        /\ Begin(a)
        /\ earlier' = [args |-> args, outcome |-> outcome, result |-> result,
                       other |-> a # args]

NextRepeat == calculate_distribution \/ CallAgain \/ CallAgainRemembering

SpecRepeat == InitRepeat /\ [][NextRepeat]_vars

(***************************************************************************)
(* The properties.                                                         *)
(***************************************************************************)
\* -1, 0, 1 as x < y, x = y, x > y
RatCmp(x, y) ==
    LET d == RatSub(x, y)
    IN  IF d.num = BigZero THEN 0 ELSE IF d.neg THEN -1 ELSE 1

RatEq(x, y) == RatCmp(x, y) = 0
RatLess(x, y) == RatCmp(x, y) < 0
RatLeq(x, y) == RatCmp(x, y) <= 0

\* the sum of the entries s[lo..hi]
RECURSIVE RatSum(_, _, _)
RatSum(s, lo, hi) ==
    IF lo > hi THEN RatZero
    ELSE IF lo = hi THEN s[lo]
    ELSE LET mid == (lo + hi) \div 2
         IN  RatAdd(RatSum(s, lo, mid), RatSum(s, mid + 1, hi))

Done == pc = "done"
Returned == pc = "done" /\ outcome = "return"

\* the documented domain of level and cost
ValidLevelCost(a) == a.level \in 1..10 /\ a.cost \in 1..5

\* s is [1.0, 0.0, ..., 0.0] with n zeros
IsOneThenZeros(s, n) ==
    /\ Len(s) = n + 1
    /\ RatEq(s[1], RatOne)
    /\ \A i \in 2..(n + 1) : RatEq(s[i], RatZero)

\* The quantities of the specification, from the tables as written.
TablePercent(a) ==
    IF a.level \in 1..10 /\ a.cost \in 1..5
    THEN InitialCostDistribution[a.level][a.cost] ELSE 0
RemainingTierPool(a) ==
    IF a.cost \in 1..5
    THEN Max(InitialUnitPoolSize[a.cost] - a.purchased_same_cost, 0) ELSE 0
RemainingTargetCopies(a) ==
    IF a.cost \in 1..5
    THEN Max(InitialUnitPoolPerChampion[a.cost] - a.purchased_target, 0) ELSE 0

\* C1: for level in 1..10 and cost in 1..5, every probability returned lies
\* in [0,1].
C1_ProbabilitiesInUnitInterval ==
    (Returned /\ ValidLevelCost(args)) =>
        \A i \in 1..Len(result) :
            RatLeq(RatZero, result[i]) /\ RatLeq(result[i], RatOne)

\* C2: for level in 1..10 and cost in 1..5, the probabilities returned sum to
\* exactly 1, in the exhaustion branch and in the binomial branch.
C2_SumIsOne ==
    (Returned /\ ValidLevelCost(args)) =>
        RatEq(RatSum(result, 1, Len(result)), RatOne)

\* a return from the binomial loop with several non-zero terms
C2_Witness ==
    /\ Returned
    /\ ValidLevelCost(args)
    /\ ~PoolExhausted(args)
    /\ args.rerolls >= 1
    /\ \A i \in 1..Len(result) : ~RatEq(result[i], RatZero)

\* C3: the list returned has exactly rerolls * 5 + 1 entries, from either
\* branch.
C3_Length == Returned => Len(result) = args.rerolls * 5 + 1

C3_Witness ==
    /\ Returned
    /\ args.rerolls >= 1
    /\ PoolExhausted(args)
    /\ Len(result) = 6

\* C4: with no target copies or no tier pool left, the call raises nothing and
\* returns exactly [1.0, 0.0, ..., 0.0] with rerolls * 5 zeros, at every level.
C4_Exhausted ==
    (/\ Done
     /\ args.cost \in 1..5
     /\ RemainingTargetCopies(args) < 1 \/ RemainingTierPool(args) < 1) =>
        /\ outcome = "return"
        /\ IsOneThenZeros(result, args.rerolls * 5)

\* a call that ended with the tier pool empty and target copies left: the
\* division that the early return keeps away from would divide by zero
C4_Witness ==
    /\ Done
    /\ args.cost \in 1..5
    /\ args.rerolls >= 1
    /\ RemainingTierPool(args) = 0
    /\ RemainingTargetCopies(args) >= 1
    /\ outcome = "return"

\* C5: with rerolls = 0 the call returns exactly [1.0], whatever the other
\* arguments and whatever p_single is, from either branch.
C5_ZeroRerolls ==
    (Done /\ args.rerolls = 0) =>
        /\ outcome = "return"
        /\ Len(result) = 1
        /\ RatEq(result[1], RatOne)

\* a return from the binomial loop with rerolls = 0 and p_single = 0
C5_Witness ==
    /\ Returned
    /\ args.rerolls = 0
    /\ ~PoolExhausted(args)
    /\ RatEq(p_single(args), RatZero)

\* C6: when the appearance rate of (level, cost) is 0, by a missing key or by
\* a 0 in the table, the call raises nothing and returns [1.0, 0.0, ..., 0.0]
\* of length rerolls * 5 + 1.
C6_ZeroRate ==
    (Done /\ TablePercent(args) = 0) =>
        /\ outcome = "return"
        /\ IsOneThenZeros(result, args.rerolls * 5)

\* the second scenario of the specification
Scenario2 == Arguments(1, 1, 5, 0, 0)

\* result[k + 1], the probability of k copies, rises up to k = peak and falls
\* after it
PeaksAt(peak) ==
    /\ \A k \in 0..(peak - 1) : RatLess(result[k + 1], result[k + 2])
    /\ \A k \in peak..(Len(result) - 2) : RatLess(result[k + 2], result[k + 1])

\* C7: at level 1, cost 1, 5 rerolls, nothing purchased, p_single is
\* 1/14 over 25 slots and the list returned is unimodal with its largest
\* probability at k = 2.
C7_PeakAtTwo ==
    (Done /\ args = Scenario2) =>
        /\ outcome = "return"
        /\ RatEq(p_single(args), RatFromInts(1, 14))
        /\ total_slots(args) = 25
        /\ Len(result) = 26
        /\ PeaksAt(2)

\* C7, with the peak the binomial has: the same, the largest probability
\* being at k = 1.
C7_PeakAtOne ==
    (Done /\ args = Scenario2) =>
        /\ outcome = "return"
        /\ RatEq(p_single(args), RatFromInts(1, 14))
        /\ total_slots(args) = 25
        /\ Len(result) = 26
        /\ PeaksAt(1)

C7_Witness == Returned /\ args = Scenario2 /\ Len(result) = 26

\* C8: no call changes a reference table, so a call with the arguments of an
\* earlier call ends as that one did, whatever calls were made in between.
C8_TablesUnchanged ==
    /\ COST_DISTRIBUTION = InitialCostDistribution
    /\ UNIT_POOL_PER_CHAMPION = InitialUnitPoolPerChampion
    /\ CHAMPION_COUNT_PER_COST = InitialChampionCountPerCost
    /\ UNIT_POOL_SIZE = InitialUnitPoolSize
    /\ (Done /\ earlier # NoCall /\ earlier.args = args) =>
           /\ outcome = earlier.outcome
           /\ result = earlier.result

\* the arguments of an earlier call used again after a call with other ones
C8_Witness ==
    /\ Returned
    /\ earlier # NoCall
    /\ earlier.args = args
    /\ earlier.other
    /\ args.rerolls >= 1

\* the sum of the entries of a sequence of ordinary naturals
RECURSIVE NatSum(_)
NatSum(s) == IF s = << >> THEN 0 ELSE s[1] + NatSum(Tail(s))

\* C9: the appearance-rate table has, for each level 1..10, an entry for each
\* cost 1..5, an integer in 0..100, and the five entries of a level sum to 100.
C9_RateTable ==
    /\ DOMAIN COST_DISTRIBUTION = 1..10
    /\ \A level \in 1..10 :
           /\ DOMAIN COST_DISTRIBUTION[level] = 1..5
           /\ \A cost \in 1..5 : COST_DISTRIBUTION[level][cost] \in 0..100
           /\ NatSum(COST_DISTRIBUTION[level]) = 100

\* a call that has read a rate of 0 that is an entry of the table
C9_Witness ==
    /\ Returned
    /\ args.level \in DOMAIN COST_DISTRIBUTION
    /\ args.cost \in DOMAIN COST_DISTRIBUTION[args.level]
    /\ cost_prob_percent(args) = 0

\* the first scenario of the specification
Scenario1 == Arguments(9, 5, 20, 0, 0)

\* C(slots, k) * p^k * (1 - p)^(slots - k) for p = N / D, N = tablePercent *
\* remainingTargetCopies and D = 100 * remainingTierPool, as one fraction over
\* D^slots
BinomialMass(a, k) ==
    LET N == TablePercent(a) * RemainingTargetCopies(a)
        D == 100 * RemainingTierPool(a)
        slots == a.rerolls * 5
        num == BigMul(CombRow(slots)[k + 1],
                      BigMul(BigPow(BigFromNat(N), k),
                             BigPow(BigFromNat(IF N > D THEN N - D ELSE D - N),
                                    slots - k)))
    IN  [neg |-> num # BigZero /\ N > D /\ (slots - k) % 2 = 1,
         num |-> num,
         den |-> BigPow(BigFromNat(D), slots)]

\* C10: with tier pool and target copies left, entry k of the list returned is
\* C(slots, k) * p^k * (1 - p)^(slots - k), the tier pool less only
\* purchased_same_cost and the target copies less only purchased_target; the
\* first scenario has p = 1/80 and 100 slots.
C10_BinomialMass ==
    /\ (Returned /\ RemainingTierPool(args) >= 1 /\ RemainingTargetCopies(args) >= 1) =>
           /\ Len(result) = args.rerolls * 5 + 1
           /\ \A k \in 0..(args.rerolls * 5) :
                  RatEq(result[k + 1], BinomialMass(args, k))
    /\ (Done /\ args = Scenario1) =>
           /\ outcome = "return"
           /\ RatEq(p_single(args), RatFromInts(1, 80))
           /\ total_slots(args) = 100

\* a return from the binomial loop after a purchase of each kind
C10_Witness ==
    /\ Returned
    /\ args.rerolls >= 1
    /\ args.purchased_target >= 1
    /\ args.purchased_same_cost >= 1
    /\ RemainingTierPool(args) >= 1
    /\ RemainingTargetCopies(args) >= 1
    /\ TablePercent(args) > 0
====
